---- MODULE Spec2Model ----
(***************************************************************************)
(* State-machine model of the order / cart / review consistency core of    *)
(* the aibuytech server (server/src/modules/{cart,orders,payments,reviews, *)
(* admin}).  A request handler is one atomic action where requests run one *)
(* after another; createOrder and createReview are also split at the await *)
(* between their checks and their writes, for the requests that overlap.   *)
(*                                                                         *)
(* Money is kept in whole currency units; prices are multiples of 10 so    *)
(* that the 10% tax of the code (subtotal * 0.1) is a whole number.        *)
(* averageRating is kept as an exact fraction num/den.                     *)
(***************************************************************************)
EXTENDS Integers, Sequences, FiniteSets, TLC

VARIABLES
    products,   \* Product collection: id -> document (or a tombstone)
    carts,      \* Cart collection: user -> cart document (or none)
    orders,     \* Order collection, in creation order; the index is the _id
    nextId,     \* source of fresh review ObjectIds
    result,     \* outcome of the last request: operation and error kind
    inflight,   \* user -> the request of the user that is past its checks
    users       \* User collection: id -> role, or a tombstone

vars == <<products, carts, orders, nextId, result, inflight, users>>

----------------------------------------------------------------------------
(* Universe and bounds                                                     *)

Users == {"u1", "u2", "u3", "u4"}
Shoppers == {"u1", "u2"}
Products == {"p1", "p2"}
Statuses == {"pending", "processing", "shipped", "delivered", "cancelled"}
PaymentMethods == {"cod", "credit_card", "momo", "vnpay"}
WebhookStatuses == {"success", "failed"}
Prices == {100, 250}
Ratings == {4, 5}
Timestamps == {0, 1}        \* Date.now() at a checkout, in milliseconds
Randoms == {0, 1}           \* Math.floor(Math.random() * 1000)

MaxStock == 2
MaxQty == 1
MaxOrders == 1
MaxReviewIds == 4
MaxResults == 3
MaxPending == 2

\* The price every product starts with: the lowest of the catalogue.
InitialPrice == CHOOSE x \in Prices : \A y \in Prices : x <= y
ShippingFee == 30000

----------------------------------------------------------------------------
(* Documents                                                               *)

ZeroRating == [num |-> 0, den |-> 1]

\* The stock of a product is the Number stock + stockHalf / 2: stock is its
\* whole part and stockHalf (0 or 1) counts the half above it.  Carts and
\* orders hold whole quantities, so a comparison of the stock with a quantity
\* and an $inc by a quantity depend on the whole part alone.
NoProduct ==
    [exists |-> FALSE, price |-> 0, stock |-> 0, stockHalf |-> 0, reviews |-> <<>>,
     averageRating |-> ZeroRating, totalReviews |-> 0]

NewProduct(price, stock) ==
    [exists |-> TRUE, price |-> price, stock |-> stock, stockHalf |-> 0, reviews |-> <<>>,
     averageRating |-> ZeroRating, totalReviews |-> 0]

NoCart == [exists |-> FALSE, items |-> <<>>]

\* No request is between its checks and its writes.
Idle == [u \in Users |-> [op |-> "idle"]]

\* The answer of a request that is not about the users.
Reply(r) == result' = r /\ UNCHANGED users

Done(op, code) == Reply([op |-> op, code |-> code]) /\ UNCHANGED inflight

Fail(op, code) == Done(op, code) /\ UNCHANGED <<products, carts, orders, nextId>>

RECURSIVE SumSeq(_)
SumSeq(s) == IF s = <<>> THEN 0 ELSE Head(s) + SumSeq(Tail(s))

Indices(s) == 1..Len(s)

SelectSeqBy(s, keep) ==
    LET F[i \in 0..Len(s)] ==
            IF i = 0 THEN <<>>
            ELSE IF keep[i] THEN Append(F[i - 1], s[i]) ELSE F[i - 1]
    IN F[Len(s)]

----------------------------------------------------------------------------
(* Cart service                                                            *)

\* A lookup that never finds the product's line.
FindIndexNever(items, p) == 0

\* items.findIndex(item => item.product.toString() === productId); 0 = -1
FindIndex(items, p) ==
    IF \E i \in Indices(items) : items[i].product = p
    THEN CHOOSE i \in Indices(items) :
            /\ items[i].product = p
            /\ \A j \in 1..(i - 1) : items[j].product # p
    ELSE 0

\* An add that checks the stock against the added quantity alone.
addToCartNoSumCheck(u, p, q) ==
    IF ~products[p].exists THEN Fail("addToCart", "NotFound")
    ELSE IF products[p].stock < q THEN Fail("addToCart", "InsufficientStock")
    ELSE
      LET items == carts[u].items
          idx == FindIndex(items, p)
          line(n) == [product |-> p, quantity |-> n, price |-> products[p].price]
      IN /\ carts' = [carts EXCEPT ![u] =
                [exists |-> TRUE,
                 items |-> IF idx > 0
                           THEN [items EXCEPT ![idx] = line(items[idx].quantity + q)]
                           ELSE Append(items, line(q))]]
         /\ Done("addToCart", "ok")
         /\ UNCHANGED <<products, orders, nextId>>

addToCart(u, p, q) ==
    IF ~products[p].exists THEN Fail("addToCart", "NotFound")
    ELSE IF products[p].stock < q THEN Fail("addToCart", "InsufficientStock")
    ELSE
      LET items == carts[u].items
          idx == FindIndex(items, p)
          line(n) == [product |-> p, quantity |-> n, price |-> products[p].price]
      IN IF idx > 0
         THEN IF products[p].stock < items[idx].quantity + q
              THEN Fail("addToCart", "InsufficientStock")
              ELSE /\ carts' = [carts EXCEPT ![u] =
                        [exists |-> TRUE,
                         items |-> [items EXCEPT ![idx] = line(items[idx].quantity + q)]]]
                   /\ Done("addToCart", "ok")
                   /\ UNCHANGED <<products, orders, nextId>>
         ELSE /\ carts' = [carts EXCEPT ![u] =
                        [exists |-> TRUE, items |-> Append(items, line(q))]]
              /\ Done("addToCart", "ok")
              /\ UNCHANGED <<products, orders, nextId>>

\* An update that adds the requested quantity to the line's.
updateCartItemAdding(u, p, q) ==
    IF ~carts[u].exists THEN Fail("updateCartItem", "NotFound")
    ELSE
      LET items == carts[u].items
          idx == FindIndex(items, p)
      IN IF idx = 0 THEN Fail("updateCartItem", "NotFound")
         ELSE IF q = 0
         THEN /\ carts' = [carts EXCEPT ![u].items =
                        SelectSeqBy(items, [i \in Indices(items) |-> i # idx])]
              /\ Done("updateCartItem", "ok")
              /\ UNCHANGED <<products, orders, nextId>>
         ELSE IF ~products[p].exists THEN Fail("updateCartItem", "NotFound")
         ELSE IF products[p].stock < q THEN Fail("updateCartItem", "InsufficientStock")
         ELSE /\ carts' = [carts EXCEPT ![u].items[idx] =
                        [product |-> p, quantity |-> @.quantity + q,
                         price |-> products[p].price]]
              /\ Done("updateCartItem", "ok")
              /\ UNCHANGED <<products, orders, nextId>>

updateCartItem(u, p, q) ==
    IF ~carts[u].exists THEN Fail("updateCartItem", "NotFound")
    ELSE
      LET items == carts[u].items
          idx == FindIndex(items, p)
      IN IF idx = 0 THEN Fail("updateCartItem", "NotFound")
         ELSE IF q = 0
         THEN /\ carts' = [carts EXCEPT ![u].items =
                        SelectSeqBy(items, [i \in Indices(items) |-> i # idx])]
              /\ Done("updateCartItem", "ok")
              /\ UNCHANGED <<products, orders, nextId>>
         ELSE IF ~products[p].exists THEN Fail("updateCartItem", "NotFound")
         ELSE IF products[p].stock < q THEN Fail("updateCartItem", "InsufficientStock")
         ELSE /\ carts' = [carts EXCEPT ![u].items[idx] =
                        [product |-> p, quantity |-> q, price |-> products[p].price]]
              /\ Done("updateCartItem", "ok")
              /\ UNCHANGED <<products, orders, nextId>>

removeFromCart(u, p) ==
    IF ~carts[u].exists THEN Fail("removeFromCart", "NotFound")
    ELSE /\ carts' = [carts EXCEPT ![u].items =
                SelectSeqBy(@, [i \in Indices(@) |-> @[i].product # p])]
         /\ Done("removeFromCart", "ok")
         /\ UNCHANGED <<products, orders, nextId>>

clearCart(u) ==
    /\ carts' = [carts EXCEPT ![u] =
            IF @.exists THEN [exists |-> TRUE, items |-> <<>>] ELSE @]
    /\ Done("clearCart", "ok")
    /\ UNCHANGED <<products, orders, nextId>>

----------------------------------------------------------------------------
(* Admin product management                                                *)

\* stock: z.number().int().min(0)
WholeStock(n) == [stock |-> n, stockHalf |-> 0]

ProductUpdates ==
    {[price |-> x] : x \in Prices} \cup {WholeStock(s) : s \in 0..MaxStock}

\* stock: z.number().min(0): n + h / 2 for a whole n >= 0 and h in {0, 1}
NumberStock(n, h) == [stock |-> n, stockHalf |-> h]

NumberStocks == {NumberStock(n, h) : n \in 0..MaxStock, h \in {0, 1}}

\* ProductsService.update (PATCH /products/:id, admin only):
\* Product.findByIdAndUpdate(id, data)
productsUpdate(p, data) ==
    IF ~products[p].exists THEN Fail("productsUpdate", "NotFound")
    ELSE /\ products' = [products EXCEPT ![p] =
                [f \in DOMAIN @ |-> IF f \in DOMAIN data THEN data[f] ELSE @[f]]]
         /\ Done("productsUpdate", "ok")
         /\ UNCHANGED <<carts, orders, nextId>>

\* A product edit that carries a new price into the orders holding the product.
adminUpdateProductCascade(p, data) ==
    IF ~products[p].exists THEN Fail("adminUpdateProduct", "NotFound")
    ELSE /\ products' = [products EXCEPT ![p] =
                [f \in DOMAIN @ |-> IF f \in DOMAIN data THEN data[f] ELSE @[f]]]
         /\ orders' = [i \in Indices(orders) |->
                [orders[i] EXCEPT !.items = [k \in Indices(@) |->
                    IF @[k].product = p /\ "price" \in DOMAIN data
                    THEN [@[k] EXCEPT !.price = data.price] ELSE @[k]]]]
         /\ Done("adminUpdateProduct", "ok")
         /\ UNCHANGED <<carts, nextId>>

adminUpdateProduct(p, data) ==
    IF ~products[p].exists THEN Fail("adminUpdateProduct", "NotFound")
    ELSE /\ products' = [products EXCEPT ![p] =
                [f \in DOMAIN @ |-> IF f \in DOMAIN data THEN data[f] ELSE @[f]]]
         /\ Done("adminUpdateProduct", "ok")
         /\ UNCHANGED <<carts, orders, nextId>>

adminDeleteProduct(p) ==
    IF ~products[p].exists THEN Fail("adminDeleteProduct", "NotFound")
    ELSE /\ products' = [products EXCEPT ![p] = NoProduct]
         /\ Done("adminDeleteProduct", "ok")
         /\ UNCHANGED <<carts, orders, nextId>>

----------------------------------------------------------------------------
(* Image search (ProductsService.searchByImage)                            *)

\* Similarities are counted in hundredths: SIMILARITY_THRESHOLD = 0.4
SimilarityThreshold == 40

Similarities == {30, 40, 70}

\* The item_id of a result whose metadata names none.
NoItemId == "none"

ItemIds == Products \cup {NoItemId}

\* The results the AI service can put into its answer.
AiResults == [item_id : ItemIds, similarity : Similarities]

\* The order in which Product.find returns the products.
ProductOrder == <<"p1", "p2">>

\* A map that keeps for each item the similarity of its last result.
RECURSIVE ItemSimilarityMapLast(_)
ItemSimilarityMapLast(results) ==
    IF results = <<>> THEN [x \in {} |-> 0]
    ELSE LET m == ItemSimilarityMapLast(SubSeq(results, 1, Len(results) - 1))
             r == results[Len(results)]
         IN IF r.similarity < SimilarityThreshold THEN m
            ELSE IF r.item_id = NoItemId THEN m
            ELSE [x \in DOMAIN m \cup {r.item_id} |->
                    IF x = r.item_id THEN r.similarity ELSE m[x]]

\* itemSimilarityMap after the loop over aiResults.results
RECURSIVE ItemSimilarityMap(_)
ItemSimilarityMap(results) ==
    IF results = <<>> THEN [x \in {} |-> 0]
    ELSE LET m == ItemSimilarityMap(SubSeq(results, 1, Len(results) - 1))
             r == results[Len(results)]
             currentSimilarity == IF r.item_id \in DOMAIN m THEN m[r.item_id] ELSE 0
         IN IF r.similarity < SimilarityThreshold THEN m
            ELSE IF r.item_id = NoItemId THEN m
            ELSE IF r.similarity > currentSimilarity
            THEN [x \in DOMAIN m \cup {r.item_id} |->
                    IF x = r.item_id THEN r.similarity ELSE m[x]]
            ELSE m

\* Inserts e after the entries of s that are not below it.
RECURSIVE InsertBySimilarity(_, _)
InsertBySimilarity(s, e) ==
    IF s = <<>> THEN <<e>>
    ELSE IF Head(s).similarity >= e.similarity
    THEN <<Head(s)>> \o InsertBySimilarity(Tail(s), e)
    ELSE <<e>> \o s

\* sort((a, b) => b.similarity - a.similarity), a stable sort
RECURSIVE SortBySimilarity(_)
SortBySimilarity(s) ==
    IF s = <<>> THEN <<>>
    ELSE InsertBySimilarity(SortBySimilarity(SubSeq(s, 1, Len(s) - 1)), s[Len(s)])

\* productsWithSimilarity: the stored products among the items of the map,
\* each with its similarity, below-threshold entries dropped, sorted
ProductsWithSimilarity(results) ==
    LET m == ItemSimilarityMap(results)
        found == SelectSeq(ProductOrder,
                    LAMBDA p : p \in DOMAIN m /\ products[p].exists)
        mapped == [k \in Indices(found) |->
                    [product |-> found[k], similarity |-> m[found[k]]]]
    IN SortBySimilarity(
          SelectSeq(mapped, LAMBDA e : e.similarity >= SimilarityThreshold))

\* The results the AI service has put into its answer so far.
PendingResults == IF result.op = "retrieve" THEN result.query ELSE <<>>

\* retrieveSimilarImagesFromBuffer: the AI service adds one result to its answer
retrieveSimilarImages(r) ==
    /\ Len(PendingResults) < MaxResults
    /\ Reply([op |-> "retrieve", code |-> "ok", query |-> Append(PendingResults, r)])
    /\ UNCHANGED <<products, carts, orders, nextId, inflight>>

\* POST /products/search/image, once the AI service has answered
searchByImage ==
    /\ result.op = "retrieve"
    /\ Reply([op |-> "searchByImage", code |-> "ok", query |-> result.query,
                  listing |-> ProductsWithSimilarity(result.query)])
    /\ UNCHANGED <<products, carts, orders, nextId, inflight>>

----------------------------------------------------------------------------
(* Order service                                                           *)

\* An emptiness test that looks only for the cart record.
CartIsEmptyOnlyMissing(cart) == ~cart.exists

\* !cart || cart.items.length === 0
CartIsEmpty(cart) == ~cart.exists \/ Len(cart.items) = 0

\* A checkout that trusts the cart and validates nothing.
ValidateStockSkipped(items) == "ok"

\* The stock validation loop: the outcome of the first line item that fails.
ValidateStock(items) ==
    LET bad(i) == \/ ~products[items[i].product].exists
                  \/ products[items[i].product].stock < items[i].quantity
    IN IF \E i \in Indices(items) : bad(i)
       THEN LET i == CHOOSE k \in Indices(items) :
                        bad(k) /\ \A j \in 1..(k - 1) : ~bad(j)
            IN IF ~products[items[i].product].exists
               THEN "NotFound" ELSE "InsufficientStock"
       ELSE "ok"

\* A subtotal charged at the products' live prices.
SubtotalLivePrice(items) ==
    SumSeq([i \in Indices(items) |->
                products[items[i].product].price * items[i].quantity])

\* cart.items.reduce((sum, item) => sum + item.price * item.quantity, 0)
Subtotal(items) ==
    SumSeq([i \in Indices(items) |-> items[i].price * items[i].quantity])

\* subtotal * 0.1
Tax(subtotal) == subtotal \div 10

\* Total quantity of product p over the line items.
QuantityOf(items, p) ==
    SumSeq([i \in Indices(items) |->
                IF items[i].product = p THEN items[i].quantity ELSE 0])

\* for each item: Product.findByIdAndUpdate(item.product, {$inc: {stock: d}})
IncStock(prods, items, sign) ==
    [p \in Products |->
        IF prods[p].exists
        THEN [prods[p] EXCEPT !.stock = @ + sign * QuantityOf(items, p)]
        ELSE prods[p]]

DecrementStock(prods, items) == IncStock(prods, items, -1)

\* A cancellation that returns nothing to the stock.
RestoreStockNever(prods, items) == prods

RestoreStock(prods, items) == IncStock(prods, items, 1)

\* `ORD-${timestamp}-${random}`, the random part padded to three digits
GenerateOrderNumber(t, r) == <<t, r>>

\* A payment status that depends on the payment method.
InitialPaymentStatusOnline(pm) == IF pm = "cod" THEN "pending" ELSE "completed"

\* paymentMethod === 'cod' ? 'pending' : 'pending'
InitialPaymentStatus(pm) == IF pm = "cod" THEN "pending" ELSE "pending"

NewOrder(u, items, pm, n) ==
    LET subtotal == Subtotal(items)
        tax == Tax(subtotal)
    IN [user |-> u,
        orderNumber |-> n,
        items |-> items,
        subtotal |-> subtotal,
        shippingFee |-> ShippingFee,
        tax |-> tax,
        totalAmount |-> subtotal + ShippingFee + tax,
        paymentMethod |-> pm,
        paymentStatus |-> InitialPaymentStatus(pm),
        status |-> "pending",
        paid |-> FALSE]

\* A checkout that deletes the cart record.
EmptiedCartDeleted(cart) == NoCart

\* cart.items = []; await cart.save()
EmptiedCart(cart) == [cart EXCEPT !.items = <<>>]

\* OrdersService.createOrder, its order number generated at time t with the
\* random draw r.
createOrderAt(u, pm, t, r) ==
    IF CartIsEmpty(carts[u]) THEN Fail("createOrder", "EmptyCart")
    ELSE IF ValidateStock(carts[u].items) # "ok"
    THEN Fail("createOrder", ValidateStock(carts[u].items))
    ELSE /\ orders' = Append(orders,
                NewOrder(u, carts[u].items, pm, GenerateOrderNumber(t, r)))
         /\ products' = DecrementStock(products, carts[u].items)
         /\ carts' = [carts EXCEPT ![u] = EmptiedCart(@)]
         /\ Done("createOrder", "ok")
         /\ UNCHANGED nextId

createOrder(u, pm) == \E t \in Timestamps, r \in Randoms : createOrderAt(u, pm, t, r)

\* createOrder up to its last stock check: the cart is loaded and every line
\* validated against the stock of that moment
createOrderValidate(u, pm) ==
    /\ inflight[u].op = "idle"
    /\ IF CartIsEmpty(carts[u]) THEN Fail("createOrder", "EmptyCart")
       ELSE IF ValidateStock(carts[u].items) # "ok"
       THEN Fail("createOrder", ValidateStock(carts[u].items))
       ELSE /\ inflight' = [inflight EXCEPT ![u] =
                    [op |-> "createOrder", items |-> carts[u].items,
                     paymentMethod |-> pm]]
            /\ Reply([op |-> "createOrder", code |-> "validated"])
            /\ UNCHANGED <<products, carts, orders, nextId>>

\* A save that validates the stock again and gives up when it is short.
createOrderSaveRechecked(u, t, r) ==
    /\ inflight[u].op = "createOrder"
    /\ inflight' = [inflight EXCEPT ![u] = [op |-> "idle"]]
    /\ IF ValidateStock(inflight[u].items) # "ok"
       THEN /\ Reply([op |-> "createOrder", code |-> ValidateStock(inflight[u].items)])
            /\ UNCHANGED <<products, carts, orders, nextId>>
       ELSE /\ orders' = Append(orders,
                    NewOrder(u, inflight[u].items, inflight[u].paymentMethod,
                             GenerateOrderNumber(t, r)))
            /\ products' = DecrementStock(products, inflight[u].items)
            /\ carts' = [carts EXCEPT ![u] = EmptiedCart(@)]
            /\ Reply([op |-> "createOrder", code |-> "ok"])
            /\ UNCHANGED nextId

\* createOrder from the totals on: order.save(), the $inc of every line's
\* stock, and the emptied cart, with the lines loaded before the checks
createOrderSave(u, t, r) ==
    /\ inflight[u].op = "createOrder"
    /\ inflight' = [inflight EXCEPT ![u] = [op |-> "idle"]]
    /\ orders' = Append(orders,
            NewOrder(u, inflight[u].items, inflight[u].paymentMethod,
                     GenerateOrderNumber(t, r)))
    /\ products' = DecrementStock(products, inflight[u].items)
    /\ carts' = [carts EXCEPT ![u] = EmptiedCart(@)]
    /\ Reply([op |-> "createOrder", code |-> "ok"])
    /\ UNCHANGED nextId

\* Bounds the orders the exploration lets the shoppers place.
OrdersCapped == Len(orders) <= MaxOrders

\* The ids a request can name: the stored orders, and one id of no order.
OrderIds == 1..(Len(orders) + 1)

OrderExists(i) == i \in Indices(orders)

\* OrdersService.updateOrderStatus (PATCH /orders/:id/status, admin only)
updateOrderStatus(i, s) ==
    IF ~OrderExists(i) THEN Fail("updateOrderStatus", "NotFound")
    ELSE IF orders[i].status \in {"delivered", "cancelled"}
    THEN Fail("updateOrderStatus", "InvalidTransition")
    ELSE /\ orders' = [orders EXCEPT ![i] =
                IF s = "delivered" /\ @.paymentMethod = "cod"
                THEN [@ EXCEPT !.status = s, !.paymentStatus = "completed", !.paid = TRUE]
                ELSE [@ EXCEPT !.status = s]]
         /\ Done("updateOrderStatus", "ok")
         /\ UNCHANGED <<products, carts, nextId>>

\* AdminService.updateOrderStatus (PATCH /admin/orders/:orderId/status)
adminUpdateOrderStatus(i, s) ==
    IF ~OrderExists(i) THEN Fail("adminUpdateOrderStatus", "NotFound")
    ELSE IF orders[i].status = "cancelled"
    THEN Fail("adminUpdateOrderStatus", "InvalidTransition")
    ELSE /\ orders' = [orders EXCEPT ![i].status = s]
         /\ Done("adminUpdateOrderStatus", "ok")
         /\ UNCHANGED <<products, carts, nextId>>

\* A cancellation refused only once the order is finished.
CannotCancelOnlyFinal(status) == status \in {"delivered", "cancelled"}

\* order.status is 'shipped', 'delivered' or 'cancelled'
CannotCancel(status) == status \in {"shipped", "delivered", "cancelled"}

cancelOrder(i, u) ==
    IF ~OrderExists(i) \/ (OrderExists(i) /\ orders[i].user # u)
    THEN Fail("cancelOrder", "NotFound")
    ELSE IF CannotCancel(orders[i].status)
    THEN Fail("cancelOrder", "InvalidTransition")
    ELSE /\ orders' = [orders EXCEPT ![i].status = "cancelled"]
         /\ products' = RestoreStock(products, orders[i].items)
         /\ Done("cancelOrder", "ok")
         /\ UNCHANGED <<carts, nextId>>

\* The role in the caller's token.
RoleOf(u) == IF u = "u4" THEN "admin" ELSE "user"

\* The users collection the requests' tokens were issued from.
Registered == [u \in Users |-> RoleOf(u)]

\* The entry of a user that was deleted.
NoUserRecord == "deleted"

Roles == {"user", "admin"}

\* User.countDocuments({role: 'admin'})
AdminCount == Cardinality({u \in Users : users[u] = "admin"})

\* AdminService.updateUserRole (PATCH /admin/users/:userId/role)
updateUserRole(u, role) ==
    IF users[u] = NoUserRecord THEN Fail("updateUserRole", "NotFound")
    ELSE /\ users' = [users EXCEPT ![u] = role]
         /\ result' = [op |-> "updateUserRole", code |-> "ok"]
         /\ UNCHANGED <<products, carts, orders, nextId, inflight>>

\* AdminService.deleteUser (DELETE /admin/users/:userId)
deleteUser(u) ==
    IF users[u] = NoUserRecord THEN Fail("deleteUser", "NotFound")
    ELSE IF users[u] = "admin" /\ AdminCount <= 1
    THEN Fail("deleteUser", "LastAdmin")
    ELSE /\ users' = [users EXCEPT ![u] = NoUserRecord]
         /\ result' = [op |-> "deleteUser", code |-> "ok"]
         /\ UNCHANGED <<products, carts, orders, nextId, inflight>>

\* The user id the controller passes to a read when none restricts it.
NoUser == "none"

\* The status filter of a listing request that names none.
AnyStatus == "any"

\* A controller that never restricts a read to the caller.
OwnerFilterNever(u) == NoUser

\* req.user.role === 'admin' ? undefined : req.user.userId
OwnerFilter(u) == IF RoleOf(u) = "admin" THEN NoUser ELSE u

\* Order.find(query): the ids of the orders of the user and in the status
\* the query names
FindOrders(userId, status) ==
    {i \in Indices(orders) :
        /\ userId = NoUser \/ orders[i].user = userId
        /\ status = AnyStatus \/ orders[i].status = status}

\* GET /orders: answers with FindOrders(OwnerFilter(u), status)
getOrders(u, status) ==
    /\ Done("getOrders", "ok")
    /\ UNCHANGED <<products, carts, orders, nextId>>

\* GET /orders/:id
getOrderById(i, u) ==
    IF i \notin FindOrders(OwnerFilter(u), AnyStatus)
    THEN Fail("getOrderById", "NotFound")
    ELSE /\ Done("getOrderById", "ok")
         /\ UNCHANGED <<products, carts, orders, nextId>>

----------------------------------------------------------------------------
(* Payments service (mock gateway)                                         *)

\* PaymentsService.createPaymentIntent: answers a mock intent, stores nothing
createPaymentIntent(i, u) ==
    IF ~OrderExists(i) \/ (OrderExists(i) /\ orders[i].user # u)
    THEN Fail("createPaymentIntent", "NotFound")
    ELSE IF orders[i].paymentStatus = "completed"
    THEN Fail("createPaymentIntent", "AlreadyPaid")
    ELSE /\ Done("createPaymentIntent", "ok")
         /\ UNCHANGED <<products, carts, orders, nextId>>

handleWebhook(i, st) ==
    IF ~OrderExists(i) THEN Fail("handleWebhook", "NotFound")
    ELSE IF st = "success"
    THEN /\ orders' = [orders EXCEPT ![i] =
                [@ EXCEPT !.paymentStatus = "completed", !.paid = TRUE,
                          !.status = "processing"]]
         /\ Done("handleWebhook", "ok")
         /\ UNCHANGED <<products, carts, nextId>>
    ELSE /\ orders' = [orders EXCEPT ![i].paymentStatus = "failed"]
         /\ Done("handleWebhook", "ok")
         /\ UNCHANGED <<products, carts, nextId>>

simulatePaymentSuccess(i, u) ==
    IF ~OrderExists(i) \/ (OrderExists(i) /\ orders[i].user # u)
    THEN Fail("simulatePaymentSuccess", "NotFound")
    ELSE IF orders[i].paymentStatus = "completed"
    THEN Fail("simulatePaymentSuccess", "AlreadyPaid")
    ELSE /\ orders' = [orders EXCEPT ![i] =
                [@ EXCEPT !.paymentStatus = "completed", !.paid = TRUE,
                          !.status = "processing"]]
         /\ Done("simulatePaymentSuccess", "ok")
         /\ UNCHANGED <<products, carts, nextId>>

----------------------------------------------------------------------------
(* Reviews service                                                         *)

\* The ids a request can name: the product's reviews, and one id of no review.
ReviewIds(p) == {products[p].reviews[k].id : k \in Indices(products[p].reviews)} \cup {nextId}

ReviewUpdates ==
    {[rating |-> r] : r \in Ratings} \cup {[isAnonymous |-> b] : b \in BOOLEAN}

\* A purchase test that accepts an order in any status.
checkUserPurchasedAnyStatus(u, p) ==
    \E i \in Indices(orders) :
        /\ orders[i].user = u
        /\ \E k \in Indices(orders[i].items) : orders[i].items[k].product = p

\* Order.findOne({user, 'items.product': productId, status: 'delivered'})
checkUserPurchased(u, p) ==
    \E i \in Indices(orders) :
        /\ orders[i].user = u
        /\ orders[i].status = "delivered"
        /\ \E k \in Indices(orders[i].items) : orders[i].items[k].product = p

\* A duplicate test that never finds an earlier review.
HasReviewByNever(reviews, u) == FALSE

\* product.reviews.find(review => review.user.toString() === userId)
HasReviewBy(reviews, u) == \E k \in Indices(reviews) : reviews[k].user = u

\* product.reviews.find(r => r._id.toString() === reviewId); 0 = undefined
FindReview(reviews, rid) ==
    IF \E k \in Indices(reviews) : reviews[k].id = rid
    THEN CHOOSE k \in Indices(reviews) :
            /\ reviews[k].id = rid
            /\ \A j \in 1..(k - 1) : reviews[j].id # rid
    ELSE 0

SumRating(reviews) == SumSeq([k \in Indices(reviews) |-> reviews[k].rating])

\* Math.round(x) for x = a / b >= 0
Round(a, b) == (2 * a + b) \div (2 * b)

\* ReviewsService.updateProductRating: Math.round((sum / n) * 10) / 10
UpdateProductRating(prod) ==
    IF Len(prod.reviews) = 0
    THEN [prod EXCEPT !.averageRating = ZeroRating, !.totalReviews = 0]
    ELSE [prod EXCEPT
            !.averageRating =
                [num |-> Round(10 * SumRating(prod.reviews), Len(prod.reviews)),
                 den |-> 10],
            !.totalReviews = Len(prod.reviews)]

createReview(u, p, rating, anon) ==
    IF ~products[p].exists THEN Fail("createReview", "NotFound")
    ELSE IF ~checkUserPurchased(u, p) THEN Fail("createReview", "ReviewNotAllowed")
    ELSE IF HasReviewBy(products[p].reviews, u)
    THEN Fail("createReview", "DuplicateReview")
    ELSE /\ nextId <= MaxReviewIds
         /\ products' = [products EXCEPT ![p] =
                UpdateProductRating([@ EXCEPT !.reviews = Append(@,
                    [id |-> nextId, user |-> u, rating |-> rating,
                     isAnonymous |-> anon])])]
         /\ nextId' = nextId + 1
         /\ Done("createReview", "ok")
         /\ UNCHANGED <<carts, orders>>

\* The fullName and email of the users collection.
FullName(u) ==
    CASE u = "u1" -> "An" [] u = "u2" -> "Binh" [] u = "u3" -> "Chi" [] OTHER -> "Admin"

Email(u) ==
    CASE u = "u1" -> "an@shop" [] u = "u2" -> "binh@shop" [] u = "u3" -> "chi@shop"
      [] OTHER -> "admin@shop"

\* populatedReviews: the review with its user replaced by _id, fullName and
\* email, the last two blanked when the review is anonymous
PopulateReview(review) ==
    IF ~review.isAnonymous
    THEN [review EXCEPT !.user =
            [id |-> review.user, fullName |-> FullName(review.user),
             email |-> Email(review.user)]]
    ELSE [review EXCEPT !.user =
            [id |-> review.user, fullName |-> "Anonymous User", email |-> "null"]]

\* The listing of getReviews in its default order, newest first.
PopulatedReviews(reviews) ==
    [k \in Indices(reviews) |-> PopulateReview(reviews[Len(reviews) + 1 - k])]

\* GET /products/:productId/reviews: answers PopulatedReviews(product.reviews)
getReviews(p) ==
    IF ~products[p].exists THEN Fail("getReviews", "NotFound")
    ELSE /\ Done("getReviews", "ok")
         /\ UNCHANGED <<products, carts, orders, nextId>>

\* An ownership test that every caller passes.
IsOwnerAlways(review, u) == TRUE

\* review.user.toString() === userId
IsOwner(review, u) == review.user = u

\* createReview up to its duplicate check: the product is loaded, the
\* purchase looked up and the loaded reviews searched for one of the user
createReviewCheck(u, p, rating, anon) ==
    /\ inflight[u].op # "createOrder"
    /\ inflight[u].op = "createReview" =>
            inflight[u].product = p /\ Len(inflight[u].pending) < MaxPending
    /\ IF ~products[p].exists THEN Fail("createReview", "NotFound")
       ELSE IF ~checkUserPurchased(u, p) THEN Fail("createReview", "ReviewNotAllowed")
       ELSE IF HasReviewBy(products[p].reviews, u)
       THEN Fail("createReview", "DuplicateReview")
       ELSE /\ inflight' = [inflight EXCEPT ![u] =
                    [op |-> "createReview", product |-> p,
                     pending |-> (IF @.op = "createReview" THEN @.pending ELSE <<>>)
                                    \o <<[rating |-> rating, isAnonymous |-> anon]>>]]
            /\ Reply([op |-> "createReview", code |-> "checked"])
            /\ UNCHANGED <<products, carts, orders, nextId>>

\* A save that looks for a review of the user in the stored product again.
createReviewSaveRechecked(u) ==
    /\ inflight[u].op = "createReview"
    /\ LET p == inflight[u].product
           rest == Tail(inflight[u].pending)
       IN /\ inflight' = [inflight EXCEPT ![u] =
                    IF rest = <<>> THEN [op |-> "idle"] ELSE [@ EXCEPT !.pending = rest]]
          /\ IF HasReviewBy(products[p].reviews, u)
             THEN /\ Reply([op |-> "createReview", code |-> "DuplicateReview"])
                  /\ UNCHANGED <<products, carts, orders, nextId>>
             ELSE /\ nextId <= MaxReviewIds
                  /\ products' = [products EXCEPT ![p] =
                        UpdateProductRating([@ EXCEPT !.reviews = Append(@,
                            [id |-> nextId, user |-> u,
                             rating |-> Head(inflight[u].pending).rating,
                             isAnonymous |-> Head(inflight[u].pending).isAnonymous])])]
                  /\ nextId' = nextId + 1
                  /\ Reply([op |-> "createReview", code |-> "ok"])
                  /\ UNCHANGED <<carts, orders>>

\* createReview from the push on: product.reviews.push(newReview) and
\* product.save() add the review to the stored array, then the rating is
\* recomputed from the stored reviews
createReviewSave(u) ==
    /\ inflight[u].op = "createReview"
    /\ nextId <= MaxReviewIds
    /\ LET p == inflight[u].product
           rest == Tail(inflight[u].pending)
       IN /\ inflight' = [inflight EXCEPT ![u] =
                    IF rest = <<>> THEN [op |-> "idle"] ELSE [@ EXCEPT !.pending = rest]]
          /\ products' = [products EXCEPT ![p] =
                UpdateProductRating([@ EXCEPT !.reviews = Append(@,
                    [id |-> nextId, user |-> u,
                     rating |-> Head(inflight[u].pending).rating,
                     isAnonymous |-> Head(inflight[u].pending).isAnonymous])])]
          /\ nextId' = nextId + 1
          /\ Reply([op |-> "createReview", code |-> "ok"])
          /\ UNCHANGED <<carts, orders>>

updateReview(u, p, rid, data) ==
    IF ~products[p].exists THEN Fail("updateReview", "NotFound")
    ELSE
      LET k == FindReview(products[p].reviews, rid) IN
      IF k = 0 THEN Fail("updateReview", "NotFound")
      ELSE IF ~IsOwner(products[p].reviews[k], u) THEN Fail("updateReview", "Forbidden")
      ELSE /\ products' = [products EXCEPT ![p] =
                  UpdateProductRating([@ EXCEPT !.reviews[k] =
                      [f \in DOMAIN @ |-> IF f \in DOMAIN data THEN data[f] ELSE @[f]]])]
           /\ Done("updateReview", "ok")
           /\ UNCHANGED <<carts, orders, nextId>>

deleteReview(u, role, p, rid) ==
    IF ~products[p].exists THEN Fail("deleteReview", "NotFound")
    ELSE
      LET reviews == products[p].reviews
          k == FindReview(reviews, rid)
      IN
      IF k = 0 THEN Fail("deleteReview", "NotFound")
      ELSE IF ~IsOwner(reviews[k], u) /\ role # "admin"
      THEN Fail("deleteReview", "Forbidden")
      ELSE /\ products' = [products EXCEPT ![p] =
                  UpdateProductRating([@ EXCEPT !.reviews =
                      SelectSeqBy(reviews, [j \in Indices(reviews) |-> reviews[j].id # rid])])]
           /\ Done("deleteReview", "ok")
           /\ UNCHANGED <<carts, orders, nextId>>

\* AdminService.deleteReview (DELETE /admin/reviews/:productId/:reviewId):
\* averageRating = totalRating / reviews.length, not rounded
adminDeleteReview(p, rid) ==
    IF ~products[p].exists THEN Fail("adminDeleteReview", "NotFound")
    ELSE
      LET reviews == products[p].reviews
          k == FindReview(reviews, rid)
          rest == SelectSeqBy(reviews, [j \in Indices(reviews) |-> j # k])
      IN
      IF k = 0 THEN Fail("adminDeleteReview", "NotFound")
      ELSE /\ products' = [products EXCEPT ![p] =
                  IF Len(rest) > 0
                  THEN [@ EXCEPT !.reviews = rest,
                                 !.averageRating = [num |-> SumRating(rest), den |-> Len(rest)],
                                 !.totalReviews = Len(rest)]
                  ELSE [@ EXCEPT !.reviews = rest,
                                 !.averageRating = ZeroRating,
                                 !.totalReviews = 0]]
           /\ Done("adminDeleteReview", "ok")
           /\ UNCHANGED <<carts, orders, nextId>>

----------------------------------------------------------------------------
(* Specifications                                                          *)

Fresh ==
    /\ products = [p \in Products |-> NewProduct(InitialPrice, MaxStock)]
    /\ carts = [u \in Users |-> NoCart]
    /\ orders = <<>>
    /\ nextId = 1
    /\ inflight = Idle
    /\ users = Registered
    /\ result = [op |-> "init", code |-> "ok"]

Init == Fresh

\* The whole system: every request, by every user, on every document.
Next ==
    \/ \E u \in Users, p \in Products, q \in 1..MaxQty : addToCart(u, p, q)
    \/ \E u \in Users, p \in Products, q \in 0..MaxQty : updateCartItem(u, p, q)
    \/ \E u \in Users, p \in Products : removeFromCart(u, p)
    \/ \E u \in Users : clearCart(u)
    \/ \E u \in Users, pm \in PaymentMethods : createOrder(u, pm) /\ OrdersCapped'
    \/ \E i \in OrderIds, u \in Users : cancelOrder(i, u)
    \/ \E u \in Users, s \in Statuses \cup {AnyStatus} : getOrders(u, s)
    \/ \E i \in OrderIds, u \in Users : getOrderById(i, u)
    \/ \E i \in OrderIds, s \in Statuses : updateOrderStatus(i, s)
    \/ \E i \in OrderIds, s \in Statuses : adminUpdateOrderStatus(i, s)
    \/ \E i \in OrderIds, st \in WebhookStatuses : handleWebhook(i, st)
    \/ \E i \in OrderIds, u \in Users : simulatePaymentSuccess(i, u)
    \/ \E i \in OrderIds, u \in Users : createPaymentIntent(i, u)
    \/ \E u \in Users, p \in Products, r \in Ratings, anon \in BOOLEAN :
            createReview(u, p, r, anon)
    \/ \E u \in Users, p \in Products : \E rid \in ReviewIds(p), data \in ReviewUpdates :
            updateReview(u, p, rid, data)
    \/ \E u \in Users, p \in Products : \E rid \in ReviewIds(p) :
            deleteReview(u, RoleOf(u), p, rid)
    \/ \E p \in Products : getReviews(p)
    \/ \E p \in Products : \E rid \in ReviewIds(p) : adminDeleteReview(p, rid)
    \/ \E p \in Products, data \in ProductUpdates : adminUpdateProduct(p, data)
    \/ \E p \in Products : adminDeleteProduct(p)
    \/ \E p \in Products, data \in NumberStocks : productsUpdate(p, data)
    \/ \E r \in AiResults : retrieveSimilarImages(r)
    \/ searchByImage
    \/ \E u \in Users, p \in Products, r \in Ratings, anon \in BOOLEAN :
            createReviewCheck(u, p, r, anon)
    \/ \E u \in Users : createReviewSave(u)
    \/ \E u \in Users, role \in Roles : updateUserRole(u, role)
    \/ \E u \in Users : deleteUser(u)
    \/ \E u \in Users, pm \in PaymentMethods : createOrderValidate(u, pm)
    \/ \E u \in Users, t \in Timestamps, r \in Randoms :
            createOrderSave(u, t, r) /\ OrdersCapped'

Spec == Init /\ [][Next]_vars

(* The specifications below restrict Spec to the requests of one subsystem *)
(* and to fewer callers, so that every reachable state is explored.  Where *)
(* the order number plays no part, each checkout happens in a millisecond  *)
(* of its own (the timestamp is the number of orders placed before it).    *)

\* One shopper's cart under product edits and deletions.
NextCart ==
    \/ \E p \in Products, q \in 1..MaxQty : addToCart("u1", p, q)
    \/ \E p \in Products, q \in 0..MaxQty : updateCartItem("u1", p, q)
    \/ \E p \in Products : removeFromCart("u1", p)
    \/ clearCart("u1")
    \/ \E p \in Products, data \in ProductUpdates : adminUpdateProduct(p, data)
    \/ \E p \in Products : adminDeleteProduct(p)

SpecCart == Init /\ [][NextCart]_vars

\* Checkout, status changes and cancellation.
NextOrder ==
    \/ \E p \in Products, q \in 1..MaxQty : addToCart("u1", p, q)
    \/ createOrderAt("u1", "cod", Len(orders), 0) /\ OrdersCapped'
    \/ \E i \in OrderIds, u \in Shoppers : cancelOrder(i, u)
    \/ \E i \in OrderIds, s \in {"processing", "shipped"} : updateOrderStatus(i, s)

SpecOrder == Init /\ [][NextOrder]_vars

\* Checkout under price edits.
NextPrice ==
    \/ \E p \in Products, q \in 1..MaxQty : addToCart("u1", p, q)
    \/ createOrderAt("u1", "cod", Len(orders), 0) /\ OrdersCapped'
    \/ \E p \in Products, x \in Prices : adminUpdateProduct(p, [price |-> x])

SpecPrice == Init /\ [][NextPrice]_vars

\* Checkout under stock edits and product deletion.
NextStock ==
    \/ \E p \in Products, q \in 1..MaxQty : addToCart("u1", p, q)
    \/ \E p \in Products : removeFromCart("u1", p)
    \/ createOrderAt("u1", "cod", Len(orders), 0) /\ OrdersCapped'
    \/ \E p \in Products, n \in 0..1 : adminUpdateProduct(p, WholeStock(n))
    \/ \E p \in Products : adminDeleteProduct(p)

SpecStock == Init /\ [][NextStock]_vars

\* Checkout with every payment method.
NextCheckout ==
    \/ \E p \in Products, q \in 1..MaxQty : addToCart("u1", p, q)
    \/ \E pm \in PaymentMethods :
            createOrderAt("u1", pm, Len(orders), 0) /\ OrdersCapped'

SpecCheckout == Init /\ [][NextCheckout]_vars

\* Checkout of two shoppers, each with a cart.
NextShoppers ==
    \/ \E u \in Shoppers, p \in Products, q \in 1..MaxQty : addToCart(u, p, q)
    \/ \E u \in Shoppers : createOrderAt(u, "cod", Len(orders), 0) /\ OrdersCapped'

SpecShoppers == Init /\ [][NextShoppers]_vars

\* Image searches over the answers of the AI service while the admin deletes
\* products.
NextSearch ==
    \/ \E r \in AiResults : retrieveSimilarImages(r)
    \/ searchByImage
    \/ \E p \in Products : adminDeleteProduct(p)

SpecSearch == Init /\ [][NextSearch]_vars

\* Date.now() never runs backwards: no earlier than the last order's.
ClockAllows(t) ==
    IF Len(orders) = 0 THEN TRUE ELSE t >= orders[Len(orders)].orderNumber[1]

\* Bounds the orders of the checkouts that draw their own order numbers.
NumbersCapped == Len(orders) <= MaxOrders + 1

\* Two shoppers check out p1; each checkout reads the clock and draws its
\* random suffix.
NextNumbers ==
    \/ \E u \in Shoppers, q \in 1..MaxQty : addToCart(u, "p1", q)
    \/ \E u \in Shoppers, t \in Timestamps, r \in Randoms :
            ClockAllows(t) /\ createOrderAt(u, "cod", t, r) /\ NumbersCapped'

SpecNumbers == Init /\ [][NextNumbers]_vars

\* One request at a time: a shopper's cart and orders of p1, the status
\* updates, and the stock edits of both admin routes.
NextSequential ==
    \/ \E q \in 1..MaxQty : addToCart("u1", "p1", q)
    \/ \E q \in 0..MaxQty : updateCartItem("u1", "p1", q)
    \/ createOrderAt("u1", "cod", Len(orders), 0) /\ OrdersCapped'
    \/ \E i \in OrderIds : cancelOrder(i, "u1")
    \/ \E i \in OrderIds, s \in {"shipped", "cancelled"} : updateOrderStatus(i, s)
    \/ \E n \in 0..MaxStock : adminUpdateProduct("p1", WholeStock(n))
    \/ \E data \in NumberStocks : productsUpdate("p1", data)

SpecSequential == Init /\ [][NextSequential]_vars

\* Two shoppers put p1 into their carts and check out; a checkout that has
\* passed its stock check can be overtaken by the other shopper's.
NextRace ==
    \/ \E u \in Shoppers, q \in 1..MaxQty :
            inflight[u].op = "idle" /\ addToCart(u, "p1", q)
    \/ \E u \in Shoppers : createOrderValidate(u, "cod")
    \/ \E u \in Shoppers : createOrderSave(u, Len(orders), 0) /\ NumbersCapped'

SpecRace == Init /\ [][NextRace]_vars

Line(p, q, x) == [product |-> p, quantity |-> q, price |-> x]

\* After u1 ordered one p1 (cod) and u2 one p1 and one p2 (momo).
Placed ==
    /\ products = [p \in Products |->
                    NewProduct(InitialPrice, IF p = "p1" THEN MaxStock - 2 ELSE MaxStock - 1)]
    /\ carts = [u \in Users |->
                    IF u \in Shoppers THEN [exists |-> TRUE, items |-> <<>>] ELSE NoCart]
    /\ orders = << NewOrder("u1", <<Line("p1", 1, InitialPrice)>>, "cod",
                            GenerateOrderNumber(0, 0)),
                   NewOrder("u2", <<Line("p1", 1, InitialPrice),
                                    Line("p2", 1, InitialPrice)>>, "momo",
                            GenerateOrderNumber(1, 0)) >>
    /\ nextId = 1
    /\ inflight = Idle
    /\ users = Registered
    /\ result = [op |-> "createOrder", code |-> "ok"]

\* Reads and cancellations of the placed orders by every user.
NextOwner ==
    \/ \E u \in Users, s \in Statuses \cup {AnyStatus} : getOrders(u, s)
    \/ \E i \in OrderIds, u \in Users : getOrderById(i, u)
    \/ \E i \in OrderIds, u \in Users : cancelOrder(i, u)
    \/ \E i \in OrderIds, s \in Statuses : updateOrderStatus(i, s)

SpecOwner == Placed /\ [][NextOwner]_vars

\* Bounds the stock a repeated cancellation can pile up.
StockCapped == \A p \in Products : products[p].stock <= MaxStock + 1

\* Everything that happens around the placed orders after their creation.
NextFrozen ==
    \/ \E x \in Prices : adminUpdateProduct("p1", [price |-> x])
    \/ adminUpdateProduct("p1", WholeStock(1))
    \/ adminDeleteProduct("p2")
    \/ addToCart("u1", "p1", 1)
    \/ updateCartItem("u1", "p1", 1)
    \/ removeFromCart("u1", "p1")
    \/ clearCart("u1")
    \/ \E i \in OrderIds : updateOrderStatus(i, "shipped")
    \/ \E i \in OrderIds, u \in Shoppers : cancelOrder(i, u) /\ StockCapped'
    \/ \E st \in WebhookStatuses : handleWebhook(2, st)
    \/ simulatePaymentSuccess(2, "u2")

SpecFrozen == Placed /\ [][NextFrozen]_vars

\* Every request that writes an order's status.
NextStatus ==
    \/ \E i \in OrderIds, s \in Statuses : updateOrderStatus(i, s)
    \/ \E i \in OrderIds, s \in Statuses : adminUpdateOrderStatus(i, s)
    \/ \E i \in OrderIds, u \in Shoppers : cancelOrder(i, u) /\ StockCapped'
    \/ \E i \in OrderIds, st \in WebhookStatuses : handleWebhook(i, st)
    \/ \E i \in OrderIds, u \in Shoppers : simulatePaymentSuccess(i, u)
    \/ \E i \in OrderIds, u \in Shoppers : createPaymentIntent(i, u)

SpecStatus == Placed /\ [][NextStatus]_vars

\* The admin's user management.
NextUsers ==
    \/ \E u \in Users, role \in Roles : updateUserRole(u, role)
    \/ \E u \in Users : deleteUser(u)

SpecUsers == Init /\ [][NextUsers]_vars

\* Payment requests on the placed orders while the admin ships them.
NextPayments ==
    \/ \E i \in OrderIds : updateOrderStatus(i, "shipped")
    \/ \E i \in OrderIds, st \in WebhookStatuses : handleWebhook(i, st)
    \/ \E i \in OrderIds, u \in Shoppers : simulatePaymentSuccess(i, u)
    \/ \E i \in OrderIds, u \in Shoppers : createPaymentIntent(i, u)

SpecPayments == Placed /\ [][NextPayments]_vars

\* The purchase gate of reviews while the orders move through their statuses.
NextGate ==
    \/ \E i \in OrderIds, s \in Statuses : updateOrderStatus(i, s)
    \/ \E i \in OrderIds, u \in Shoppers : cancelOrder(i, u)
    \/ \E u \in Shoppers, p \in Products, r \in Ratings : createReview(u, p, r, FALSE)
    \/ \E u \in Shoppers, p \in Products : \E rid \in ReviewIds(p) :
            deleteReview(u, RoleOf(u), p, rid)
    \/ \E u \in Shoppers, p \in Products, r \in Ratings : \E rid \in ReviewIds(p) :
            updateReview(u, p, rid, [rating |-> r])
    \/ \E p \in Products : \E rid \in ReviewIds(p) : adminDeleteReview(p, rid)

SpecGate == Placed /\ [][NextGate]_vars

DeliveredOrder(u, t) ==
    [NewOrder(u, <<Line("p1", 1, InitialPrice)>>, "cod", GenerateOrderNumber(t, 0)) EXCEPT
        !.status = "delivered", !.paymentStatus = "completed", !.paid = TRUE]

\* After each of the four users received one p1 (the admin restocked p1).
Delivered ==
    /\ products = [p \in Products |-> NewProduct(InitialPrice, MaxStock)]
    /\ carts = [u \in Users |-> [exists |-> TRUE, items |-> <<>>]]
    /\ orders = << DeliveredOrder("u1", 0), DeliveredOrder("u2", 1),
                   DeliveredOrder("u3", 2), DeliveredOrder("u4", 3) >>
    /\ nextId = 1
    /\ inflight = Idle
    /\ users = Registered
    /\ result = [op |-> "updateOrderStatus", code |-> "ok"]

\* The callers of the review requests: two buyers and the admin.
Reviewers == {"u1", "u2", "u4"}

\* Two buyers review p1, by name or anonymously; they and the admin edit and
\* delete every review.
NextAuthors ==
    \/ \E u \in Shoppers, r \in Ratings, anon \in BOOLEAN : createReview(u, "p1", r, anon)
    \/ \E u \in Reviewers, rid \in ReviewIds("p1"), data \in ReviewUpdates :
            updateReview(u, "p1", rid, data)
    \/ \E u \in Reviewers, rid \in ReviewIds("p1") : deleteReview(u, RoleOf(u), "p1", rid)
    \/ getReviews("p1")

SpecAuthors == Delivered /\ [][NextAuthors]_vars

\* Two buyers send reviews of p1, a second one before the first is stored.
NextReviewRace ==
    \/ \E u \in Shoppers, r \in Ratings : createReviewCheck(u, "p1", r, FALSE)
    \/ \E u \in Shoppers : createReviewSave(u)

SpecReviewRace == Delivered /\ [][NextReviewRace]_vars

\* Review requests of buyers of p1, and the admin's deletions.
NextReviews ==
    \/ \E u \in Users, r \in Ratings : createReview(u, "p1", r, FALSE)
    \/ \E u \in Users, rid \in ReviewIds("p1"), r \in Ratings :
            updateReview(u, "p1", rid, [rating |-> r])
    \/ \E u \in Users, rid \in ReviewIds("p1") : deleteReview(u, RoleOf(u), "p1", rid)
    \/ \E rid \in ReviewIds("p1") : adminDeleteReview("p1", rid)

SpecReviews == Delivered /\ [][NextReviews]_vars

----------------------------------------------------------------------------
(* Properties                                                              *)

\* C1: in every state, each product's totalReviews is the number of its stored
\* reviews and its averageRating is the mean of their ratings rounded to one
\* decimal place, both 0 when the product has no reviews.
RatingAggregates ==
    \A p \in Products :
        LET prod == products[p]
            n == Len(prod.reviews)
        IN /\ prod.totalReviews = n
           /\ IF n = 0
              THEN prod.averageRating.num = 0
              ELSE 10 * prod.averageRating.num =
                      Round(10 * SumRating(prod.reviews), n) * prod.averageRating.den

\* C2: a successful createOrder lowers the stock of every product by exactly
\* the quantity ordered of it, a successful cancelOrder of a pending or
\* processing order raises it by exactly the quantity of that order, and so
\* the stock of a product plus the quantities held by the orders that are not
\* cancelled stays at its value before the orders were placed.
StockRoundTrip ==
    [][LET HeldBy(p) ==
               SumSeq([i \in Indices(orders') |->
                   IF orders'[i].status = "cancelled" THEN 0
                   ELSE QuantityOf(orders'[i].items, p)])
       IN /\ (result'.op = "createOrder" /\ result'.code = "ok") =>
                LET o == orders'[Len(orders')]
                IN /\ Len(orders') = Len(orders) + 1
                   /\ o.items = carts[o.user].items
                   /\ \A p \in Products :
                        products'[p].stock =
                            products[p].stock - QuantityOf(o.items, p)
          /\ \A i \in Indices(orders) :
                (orders[i].status \in {"pending", "processing"}
                    /\ orders'[i].status = "cancelled") =>
                    \A p \in Products :
                        products'[p].stock =
                            products[p].stock + QuantityOf(orders[i].items, p)
          /\ \A p \in Products : products'[p].stock + HeldBy(p) = MaxStock
      ]_vars

\* C2 witness: a two-line order was cancelled and both stocks are back.
StockRestored ==
    /\ result = [op |-> "cancelOrder", code |-> "ok"]
    /\ \E i \in Indices(orders) :
        /\ orders[i].status = "cancelled"
        /\ Len(orders[i].items) = 2
        /\ \E k \in Indices(orders[i].items) : orders[i].items[k].quantity = 2
    /\ \A p \in Products : products[p].stock = MaxStock

\* C3: over the 25 (current status, requested status) pairs, a status change
\* is accepted exactly for pending->processing, pending->cancelled,
\* processing->shipped, processing->cancelled and shipped->delivered; every
\* other request is rejected and leaves the status as it was.
StatusTable ==
    [][LET Allowed == { <<"pending", "processing">>, <<"pending", "cancelled">>,
                        <<"processing", "shipped">>, <<"processing", "cancelled">>,
                        <<"shipped", "delivered">> }
           Follows(i, s) ==
               IF <<orders[i].status, s>> \in Allowed
               THEN result'.code = "ok" /\ orders'[i].status = s
               ELSE result'.code # "ok" /\ orders'[i].status = orders[i].status
       IN \A i \in Indices(orders) :
            /\ \A s \in Statuses :
                (updateOrderStatus(i, s) \/ adminUpdateOrderStatus(i, s)) => Follows(i, s)
            /\ cancelOrder(i, orders[i].user) => Follows(i, "cancelled")
      ]_vars

\* C4: once an order's status is delivered or cancelled, no step changes it.
TerminalIsFinal ==
    [][\A i \in Indices(orders) :
            orders[i].status \in {"delivered", "cancelled"} =>
                orders'[i].status = orders[i].status
      ]_vars

\* C5: every order has subtotal = the sum of (snapshot price x quantity) over
\* its line items, which createOrder copies from the cart, shippingFee =
\* 30000, tax = 10% of the subtotal and totalAmount = subtotal + 30000 + tax;
\* the live price of the product plays no part, and no later step (a price
\* change among them) alters a stored order.
OrderTotals ==
    [][/\ \A i \in Indices(orders') :
            LET o == orders'[i]
            IN /\ o.subtotal =
                    SumSeq([k \in Indices(o.items) |->
                                o.items[k].price * o.items[k].quantity])
               /\ o.shippingFee = 30000
               /\ 10 * o.tax = o.subtotal
               /\ o.totalAmount = o.subtotal + 30000 + o.tax
       /\ (result'.op = "createOrder" /\ result'.code = "ok") =>
            /\ Len(orders') = Len(orders) + 1
            /\ orders'[Len(orders')].items = carts[orders'[Len(orders')].user].items
       /\ \A i \in Indices(orders) : orders'[i] = orders[i]
      ]_vars

\* C5 witness: an order was created from a line whose snapshot price is not
\* the live price of its product at checkout.
SnapshotPriceCharged ==
    /\ result = [op |-> "createOrder", code |-> "ok"]
    /\ \E i \in Indices(orders) :
        /\ Len(orders[i].items) = 2
        /\ \E k \in Indices(orders[i].items) :
            /\ orders[i].items[k].price # products[orders[i].items[k].product].price
            /\ orders[i].items[k].quantity = 2

\* C6: createReview succeeds only if the caller has a delivered order whose
\* items include the product; without one (the product existing) it fails with
\* ReviewNotAllowed and leaves the products, their reviews and aggregates, as
\* they were.
PurchaseGate ==
    [][result'.op = "createReview" =>
        \A u \in Users, p \in Products, r \in Ratings, anon \in BOOLEAN :
            createReview(u, p, r, anon) =>
                LET bought ==
                        \E i \in Indices(orders) :
                            /\ orders[i].user = u
                            /\ orders[i].status = "delivered"
                            /\ \E k \in Indices(orders[i].items) :
                                    orders[i].items[k].product = p
                IN /\ result'.code = "ok" => bought
                   /\ (products[p].exists /\ ~bought) =>
                        /\ result'.code = "ReviewNotAllowed"
                        /\ products' = products
      ]_vars

\* C6 witness: a review was refused although u1's delivered order let u1
\* review p1 before, and u2's order of both products is cancelled.
ReviewRefused ==
    /\ result = [op |-> "createReview", code |-> "ReviewNotAllowed"]
    /\ orders[1].status = "delivered"
    /\ orders[2].status = "cancelled"
    /\ Len(products["p1"].reviews) = 1
    /\ products["p1"].reviews[1].user = "u1"

CartLines ==
    [][/\ \A u \in Users :
            LET items == carts'[u].items
            IN /\ \A j, k \in Indices(items) :
                    items[j].product = items[k].product => j = k
               /\ \A k \in Indices(items) : items[k].quantity >= 1
       /\ result'.op = "addToCart" =>
          \A u \in Users, p \in Products, q \in 1..MaxQty :
            (addToCart(u, p, q) /\ result'.code = "ok"
                /\ \E k \in Indices(carts[u].items) : carts[u].items[k].product = p) =>
                /\ Len(carts'[u].items) = Len(carts[u].items)
                /\ \A k \in Indices(carts[u].items) :
                    /\ carts'[u].items[k].product = carts[u].items[k].product
                    /\ carts'[u].items[k].quantity =
                            carts[u].items[k].quantity
                                + (IF carts[u].items[k].product = p THEN q ELSE 0)
      ]_vars

\* C8 witness: an add was accepted into a cart of two lines, the first of
\* which holds more than any single request can ask for: the sum of two adds.
QuantityAccumulated ==
    /\ result = [op |-> "addToCart", code |-> "ok"]
    /\ Len(carts["u1"].items) = 2
    /\ carts["u1"].items[1].quantity > MaxQty

\* C9 as stated: when the live stock of some line item's product is below the
\* line's quantity, createOrder fails with InsufficientStock and changes no
\* order, no product and no cart.
StockRecheckInsufficient ==
    [][result'.op = "createOrder" =>
        \A u \in Users, pm \in PaymentMethods :
            (createOrder(u, pm)
                /\ \E k \in Indices(carts[u].items) :
                    /\ products[carts[u].items[k].product].exists
                    /\ products[carts[u].items[k].product].stock
                            < carts[u].items[k].quantity) =>
                /\ result'.code = "InsufficientStock"
                /\ orders' = orders /\ products' = products /\ carts' = carts
      ]_vars

\* C9: when the live stock of some line item's product is below the line's
\* quantity, createOrder fails and changes no order, no product and no cart;
\* it fails with InsufficientStock, or with NotFound when a line item's
\* product no longer exists.
StockRecheck ==
    [][result'.op = "createOrder" =>
        \A u \in Users, pm \in PaymentMethods :
            (createOrder(u, pm)
                /\ \E k \in Indices(carts[u].items) :
                    /\ products[carts[u].items[k].product].exists
                    /\ products[carts[u].items[k].product].stock
                            < carts[u].items[k].quantity) =>
                /\ result'.code \in {"InsufficientStock", "NotFound"}
                /\ result'.code = "NotFound" =>
                        \E k \in Indices(carts[u].items) :
                            ~products[carts[u].items[k].product].exists
                /\ orders' = orders /\ products' = products /\ carts' = carts
      ]_vars

\* C9 witness: checkout failed on a cart whose first line names a deleted
\* product and whose second line asks for more than the stock left.
CheckoutRefused ==
    /\ result = [op |-> "createOrder", code |-> "NotFound"]
    /\ Len(carts["u1"].items) = 2
    /\ ~products[carts["u1"].items[1].product].exists
    /\ products[carts["u1"].items[2].product].exists
    /\ products[carts["u1"].items[2].product].stock < carts["u1"].items[2].quantity

\* C10: createOrder for a user with no cart, or with a cart of zero line
\* items, fails with EmptyCart and changes no order and no stock; so does a
\* createOrder that directly follows a successful one.
EmptyCartRefused ==
    [][result'.op = "createOrder" =>
        \A u \in Users, pm \in PaymentMethods :
            /\ (createOrder(u, pm)
                    /\ (~carts[u].exists \/ Len(carts[u].items) = 0)) =>
                    /\ result'.code = "EmptyCart"
                    /\ orders' = orders /\ products' = products
            /\ (createOrder(u, pm)
                    /\ result = [op |-> "createOrder", code |-> "ok"]
                    /\ orders # <<>> /\ orders[Len(orders)].user = u) =>
                    /\ result'.code = "EmptyCart"
                    /\ orders' = orders /\ products' = products
      ]_vars

\* C10 witness: checkout was refused for the emptied cart of a user whose
\* earlier checkout succeeded.
SecondCheckoutRefused ==
    /\ result = [op |-> "createOrder", code |-> "EmptyCart"]
    /\ Len(orders) = 1
    /\ orders[1].user = "u1"
    /\ carts["u1"] = [exists |-> TRUE, items |-> <<>>]
    /\ \A p \in Products : products[p].stock = MaxStock - QuantityOf(orders[1].items, p)

\* C11: cancelOrder succeeds only on an order that is pending or processing,
\* and then cancels it; on an order that is shipped, delivered or cancelled it
\* fails and changes no order and no product.
CancelEligibility ==
    [][result'.op = "cancelOrder" =>
        \A i \in Indices(orders), u \in Users :
            cancelOrder(i, u) =>
                /\ result'.code = "ok" =>
                    /\ orders[i].status \in {"pending", "processing"}
                    /\ orders'[i].status = "cancelled"
                /\ orders[i].status \in {"shipped", "delivered", "cancelled"} =>
                    /\ result'.code # "ok"
                    /\ orders' = orders
                    /\ products' = products
      ]_vars

\* C11 witness: the owner's cancellation of a shipped order was refused, and
\* the stock is what the two checkouts left.
CancelRefused ==
    /\ result = [op |-> "cancelOrder", code |-> "InvalidTransition"]
    /\ orders[1].status = "shipped"
    /\ orders[2].status = "pending"
    /\ products["p1"].stock = MaxStock - 2
    /\ products["p2"].stock = MaxStock - 1

\* C12: every order createOrder produces, whatever its payment method, starts
\* with status pending and paymentStatus pending, and unpaid.
StartsPending ==
    [][(result'.op = "createOrder" /\ result'.code = "ok") =>
        /\ Len(orders') = Len(orders) + 1
        /\ orders'[Len(orders')].paymentMethod \in PaymentMethods
        /\ orders'[Len(orders')].status = "pending"
        /\ orders'[Len(orders')].paymentStatus = "pending"
        /\ ~orders'[Len(orders')].paid
      ]_vars

\* C12 witness: an order paid by credit card was just created, pending.
CardOrderPending ==
    /\ result = [op |-> "createOrder", code |-> "ok"]
    /\ Len(orders) = 1
    /\ orders[1].paymentMethod = "credit_card"
    /\ orders[1].status = "pending"
    /\ orders[1].paymentStatus = "pending"

\* C13: after a successful createOrder the user's cart record exists with zero
\* line items, the new order's items are the lines the cart held, and the
\* carts of the other users are as they were.
CartClearedByCheckout ==
    [][(result'.op = "createOrder" /\ result'.code = "ok") =>
        LET o == orders'[Len(orders')]
        IN /\ Len(orders') = Len(orders) + 1
           /\ carts'[o.user] = [exists |-> TRUE, items |-> <<>>]
           /\ Len(carts[o.user].items) > 0
           /\ o.items = carts[o.user].items
           /\ \A u \in Users \ {o.user} : carts'[u] = carts[u]
      ]_vars

\* C13 witness: u1 checked out a cart of two lines while u2's cart holds two
\* lines.
CheckoutLeftOtherCart ==
    /\ result = [op |-> "createOrder", code |-> "ok"]
    /\ Len(orders) = 1
    /\ orders[1].user = "u1"
    /\ Len(orders[1].items) = 2
    /\ carts["u1"] = [exists |-> TRUE, items |-> <<>>]
    /\ Len(carts["u2"].items) = 2

AddToCartChecks ==
    [][result'.op = "addToCart" =>
        \A u \in Users, p \in Products, q \in 1..MaxQty :
            addToCart(u, p, q) =>
                LET held == SumSeq([k \in Indices(carts[u].items) |->
                                IF carts[u].items[k].product = p
                                THEN carts[u].items[k].quantity ELSE 0])
                    lines == {k \in Indices(carts'[u].items) :
                                carts'[u].items[k].product = p}
                IN /\ products' = products
                   /\ IF ~products[p].exists
                      THEN result'.code = "NotFound" /\ carts' = carts
                      ELSE IF products[p].stock < held + q
                      THEN result'.code = "InsufficientStock" /\ carts' = carts
                      ELSE /\ result'.code = "ok"
                           /\ carts'[u].exists
                           /\ \A k \in lines :
                                /\ carts'[u].items[k].quantity = held + q
                                /\ carts'[u].items[k].price = products[p].price
                           /\ lines # {}
      ]_vars

\* C15 witness: an add was refused because the cart's line and the added
\* quantity together exceed a stock that covers each of them.
AddRefusedForSum ==
    /\ result = [op |-> "addToCart", code |-> "InsufficientStock"]
    /\ \E k \in Indices(carts["u1"].items) :
        /\ products[carts["u1"].items[k].product].exists
        /\ products[carts["u1"].items[k].product].stock = carts["u1"].items[k].quantity
        /\ carts["u1"].items[k].quantity >= MaxQty

\* C16: a user who is not an admin lists exactly that user's own orders; a
\* getOrderById of another user's order by a user who is not an admin fails
\* with NotFound, while the owner and an admin read it; a cancelOrder by
\* anyone but the owner fails with NotFound; none of these changes an order
\* or a product.
OrderOwnership ==
    [][/\ \A u \in Users, s \in Statuses :
            LET listed == FindOrders(OwnerFilter(u), s)
                mine == {i \in Indices(orders) :
                            orders[i].user = u /\ orders[i].status = s}
            IN IF RoleOf(u) = "admin"
               THEN listed = {i \in Indices(orders) : orders[i].status = s}
               ELSE listed = mine
       /\ result'.op \in {"getOrders", "getOrderById"} =>
            orders' = orders /\ products' = products /\ carts' = carts
       /\ result'.op = "getOrderById" =>
            \A i \in Indices(orders), u \in Users :
                getOrderById(i, u) =>
                    result'.code =
                        IF orders[i].user = u \/ RoleOf(u) = "admin"
                        THEN "ok" ELSE "NotFound"
       /\ result'.op = "cancelOrder" =>
            \A i \in Indices(orders), u \in Users :
                (cancelOrder(i, u) /\ orders[i].user # u) =>
                    /\ result'.code = "NotFound"
                    /\ orders' = orders /\ products' = products
      ]_vars

\* C16 witness: a read of an order by someone else was refused while u1's
\* order is shipped and u2's own cancellation went through.
ForeignReadRefused ==
    /\ result = [op |-> "getOrderById", code |-> "NotFound"]
    /\ orders[1].status = "shipped"
    /\ orders[2].status = "cancelled"

\* C17: no step after an order's creation (a product price or stock edit, a
\* product deletion, a cart change, a status update, a cancellation, a
\* payment webhook or simulation) changes the order's items or its subtotal,
\* tax, shipping fee and total amount.
OrderFrozen ==
    [][\A i \in Indices(orders) :
            /\ i \in Indices(orders')
            /\ orders'[i].items = orders[i].items
            /\ orders'[i].subtotal = orders[i].subtotal
            /\ orders'[i].tax = orders[i].tax
            /\ orders'[i].shippingFee = orders[i].shippingFee
            /\ orders'[i].totalAmount = orders[i].totalAmount
      ]_vars

\* C17 witness: u1's order is cancelled and u2's paid while p1 costs more
\* than the orders charged and p2 is deleted; both orders still hold the
\* lines and the amounts of their creation.
SnapshotOutlivedEdits ==
    /\ orders[1].status = "cancelled"
    /\ orders[2].paymentStatus = "completed"
    /\ products["p1"].exists /\ products["p1"].price > InitialPrice
    /\ ~products["p2"].exists
    /\ orders[1].items = <<Line("p1", 1, InitialPrice)>>
    /\ orders[2].items = <<Line("p1", 1, InitialPrice), Line("p2", 1, InitialPrice)>>
    /\ orders[2].subtotal = 2 * InitialPrice
    /\ orders[2].totalAmount = 2 * InitialPrice + Tax(2 * InitialPrice) + ShippingFee

\* C18: an updateReview of an existing review succeeds for its author and is
\* Forbidden for everyone else, the admin included; a deleteReview succeeds
\* for the author and for an admin and is Forbidden for everyone else; a
\* Forbidden request leaves the reviews and the rating aggregates as they
\* were; a review id the product does not hold is answered NotFound.
ReviewOwnership ==
    [][/\ result'.op = "updateReview" =>
            \A u \in Users, rid \in ReviewIds("p1"), data \in ReviewUpdates :
                updateReview(u, "p1", rid, data) =>
                    LET k == FindReview(products["p1"].reviews, rid) IN
                    result'.code =
                        IF k = 0 THEN "NotFound"
                        ELSE IF products["p1"].reviews[k].user = u THEN "ok"
                        ELSE "Forbidden"
       /\ result'.op = "deleteReview" =>
            \A u \in Users, rid \in ReviewIds("p1") :
                deleteReview(u, RoleOf(u), "p1", rid) =>
                    LET k == FindReview(products["p1"].reviews, rid) IN
                    result'.code =
                        IF k = 0 THEN "NotFound"
                        ELSE IF products["p1"].reviews[k].user = u \/ RoleOf(u) = "admin"
                        THEN "ok"
                        ELSE "Forbidden"
       /\ (result'.op \in {"updateReview", "deleteReview"}
            /\ result'.code \in {"Forbidden", "NotFound"}) =>
                products' = products
      ]_vars

\* C18 witness: a request on a review was Forbidden while p1 holds reviews of
\* both buyers with different ratings.
ForeignEditRefused ==
    /\ result.op \in {"updateReview", "deleteReview"}
    /\ result.code = "Forbidden"
    /\ Len(products["p1"].reviews) = 2
    /\ products["p1"].reviews[1].rating # products["p1"].reviews[2].rating

\* C19: the listing of getReviews does not depend on who wrote an anonymous
\* review: with the author of any anonymous review of p1 replaced by any
\* other user, the listing is the same.
AnonymousListing ==
    LET reviews == products["p1"].reviews IN
    \A k \in Indices(reviews), v \in Users :
        reviews[k].isAnonymous =>
            PopulatedReviews([reviews EXCEPT ![k].user = v]) = PopulatedReviews(reviews)

\* C20: no two stored orders carry the same order number.
UniqueOrderNumbers ==
    \A i, j \in Indices(orders) :
        i # j => orders[i].orderNumber # orders[j].orderNumber

\* C21 as stated: updateCartItem fails with NotFound when the user has no
\* cart or the cart has no line of the product; with quantity 0 it removes
\* the line whatever the stock; with a quantity above 0 it fails with
\* InsufficientStock when the product's stock is below the quantity and in
\* every other case sets the line to that quantity at the current price.
UpdateItemStockOnly ==
    [][result'.op = "updateCartItem" =>
        \A u \in Users, p \in Products, q \in 0..MaxQty :
            updateCartItem(u, p, q) =>
                LET items == carts[u].items
                    held == {k \in Indices(items) : items[k].product = p}
                IN IF ~carts[u].exists \/ held = {}
                   THEN result'.code = "NotFound" /\ carts' = carts
                   ELSE IF q = 0
                   THEN /\ result'.code = "ok"
                        /\ \A k \in Indices(carts'[u].items) :
                                carts'[u].items[k].product # p
                        /\ Len(carts'[u].items) = Len(items) - 1
                   ELSE IF products[p].exists /\ products[p].stock < q
                   THEN result'.code = "InsufficientStock" /\ carts' = carts
                   ELSE /\ result'.code = "ok"
                        /\ Len(carts'[u].items) = Len(items)
                        /\ \A k \in Indices(items) :
                                carts'[u].items[k] =
                                    IF k \in held
                                    THEN [product |-> p, quantity |-> q,
                                          price |-> products[p].price]
                                    ELSE items[k]
      ]_vars

\* C21: updateCartItem fails with NotFound when the user has no cart or the
\* cart has no line of the product; with quantity 0 it removes the line
\* whatever the stock; with a quantity above 0 it fails with NotFound when the
\* product no longer exists, with InsufficientStock when the product's stock
\* is below the quantity, the cart unchanged in both, and otherwise sets the
\* line to exactly that quantity at the product's current price, the other
\* lines unchanged.
UpdateItemChecks ==
    [][result'.op = "updateCartItem" =>
        \A u \in Users, p \in Products, q \in 0..MaxQty :
            updateCartItem(u, p, q) =>
                LET items == carts[u].items
                    held == {k \in Indices(items) : items[k].product = p}
                IN IF ~carts[u].exists \/ held = {}
                   THEN result'.code = "NotFound" /\ carts' = carts
                   ELSE IF q = 0
                   THEN /\ result'.code = "ok"
                        /\ \A k \in Indices(carts'[u].items) :
                                carts'[u].items[k].product # p
                        /\ Len(carts'[u].items) = Len(items) - 1
                   ELSE IF ~products[p].exists
                   THEN result'.code = "NotFound" /\ carts' = carts
                   ELSE IF products[p].stock < q
                   THEN result'.code = "InsufficientStock" /\ carts' = carts
                   ELSE /\ result'.code = "ok"
                        /\ Len(carts'[u].items) = Len(items)
                        /\ \A k \in Indices(items) :
                                carts'[u].items[k] =
                                    IF k \in held
                                    THEN [product |-> p, quantity |-> q,
                                          price |-> products[p].price]
                                    ELSE items[k]
      ]_vars

\* C21 witness: an update was answered NotFound for a cart that holds a line
\* of each product, both products deleted since.
UpdateOfDeletedRefused ==
    /\ result = [op |-> "updateCartItem", code |-> "NotFound"]
    /\ Len(carts["u1"].items) = 2
    /\ \A p \in Products : ~products[p].exists

\* C22: every removeFromCart and every clearCart completes without an error,
\* whether or not the user has a cart and whether or not it holds the
\* product; after removeFromCart the cart has no line of the product and its
\* other lines are unchanged; after clearCart the cart has no line.
CartRemovalsUnconditional ==
    [][/\ result'.op \in {"removeFromCart", "clearCart"} => result'.code = "ok"
       /\ result'.op = "removeFromCart" =>
            \A u \in Users, p \in Products :
                removeFromCart(u, p) =>
                    carts'[u].items =
                        SelectSeq(carts[u].items, LAMBDA l : l.product # p)
       /\ result'.op = "clearCart" =>
            \A u \in Users : clearCart(u) => carts'[u].items = <<>>
      ]_vars

OverlappingCheckoutsCommit ==
    [][\A u \in Shoppers :
        (inflight[u].op = "createOrder" /\ inflight'[u].op = "idle") =>
            /\ result' = [op |-> "createOrder", code |-> "ok"]
            /\ Len(orders') = Len(orders) + 1
            /\ orders'[Len(orders')].user = u
            /\ orders'[Len(orders')].items = inflight[u].items
            /\ \A p \in Products :
                products'[p].stock =
                    products[p].stock - QuantityOf(inflight[u].items, p)
      ]_vars

\* C24 witness: the orders of both shoppers are stored and the stock of p1
\* is below zero.
Oversold ==
    /\ Len(orders) = 2
    /\ orders[1].user # orders[2].user
    /\ products["p1"].stock < 0
    /\ QuantityOf(orders[1].items, "p1") + QuantityOf(orders[2].items, "p1") > MaxStock

\* C25: nothing at the storage layer keeps a user to one review of a
\* product: a createReview that has passed its duplicate check stores its
\* review of the user even when the product already holds one by that user.
OverlappingReviewsStored ==
    [][\A u \in Shoppers :
        (inflight[u].op = "createReview" /\ inflight'[u] # inflight[u]
            /\ (inflight'[u].op = "idle"
                \/ Len(inflight'[u].pending) < Len(inflight[u].pending))) =>
            LET old == products["p1"].reviews
                new == products'["p1"].reviews
            IN /\ result' = [op |-> "createReview", code |-> "ok"]
               /\ Len(new) = Len(old) + 1
               /\ new[Len(new)].user = u
               /\ \A k \in Indices(old) : new[k] = old[k]
      ]_vars

\* C25 witness: p1 stores two reviews by the same user.
TwoReviewsBySameUser ==
    \E j, k \in Indices(products["p1"].reviews) :
        /\ j # k
        /\ products["p1"].reviews[j].user = products["p1"].reviews[k].user

\* C26: with one request at a time, the stock of every product is a whole
\* number and is not below zero.
StockNonNegativeInteger ==
    \A p \in Products :
        /\ products[p].stock >= 0
        /\ products[p].stockHalf = 0

\* C27: for every product, the stock plus the quantities of the product in
\* the orders that are not cancelled is the stock the product started with:
\* every order that becomes cancelled is restocked, and exactly once.
StockConserved ==
    \A p \in Products :
        products[p].stock
            + SumSeq([i \in Indices(orders) |->
                        IF orders[i].status = "cancelled" THEN 0
                        ELSE QuantityOf(orders[i].items, p)])
            = MaxStock

\* C28: the status of an order that is not cancelled never moves backward in
\* pending < processing < shipped < delivered; a payment confirmation moves
\* a pending order to processing and leaves a later status where it is.
StatusNeverBackward ==
    [][LET rank(st) == CASE st = "pending" -> 1 [] st = "processing" -> 2
                         [] st = "shipped" -> 3 [] OTHER -> 4
       IN \A i \in Indices(orders) :
            /\ (orders[i].status # "cancelled" /\ orders'[i].status # "cancelled") =>
                    rank(orders'[i].status) >= rank(orders[i].status)
            /\ (result'.op \in {"handleWebhook", "simulatePaymentSuccess"}
                    /\ orders[i].status \in {"processing", "shipped"}) =>
                    orders'[i].status = orders[i].status
      ]_vars

\* C29: an order whose paymentStatus is completed stays completed and paid
\* in every later step, and createPaymentIntent and simulatePaymentSuccess
\* on it by its owner are answered AlreadyPaid.
PaidStaysPaid ==
    [][\A i \in Indices(orders) :
        orders[i].paymentStatus = "completed" =>
            /\ orders'[i].paymentStatus = "completed"
            /\ orders'[i].paid = orders[i].paid
            /\ (createPaymentIntent(i, orders[i].user)
                    \/ simulatePaymentSuccess(i, orders[i].user)) =>
                    result'.code = "AlreadyPaid"
      ]_vars

\* C30: at least one user with role admin exists in every state, and a
\* deleteUser of the only admin is answered LastAdmin and changes no user.
AdminRemains ==
    [][/\ \E u \in Users : users'[u] = "admin"
       /\ \A u \in Users :
            (deleteUser(u) /\ users[u] = "admin" /\ AdminCount <= 1) =>
                result'.code = "LastAdmin" /\ users' = users
      ]_vars

====
